---- MODULE Spec2Model ----
(***************************************************************************)
(* Model of coral-editor's selection / crop engine (src/src/main.rs):      *)
(* App::render, App::input and the event loop of run_graphical.            *)
(*                                                                         *)
(* Pointer positions and window sizes are f64 in the program; the model    *)
(* draws them from small sets of integer values.  Quotients are kept as    *)
(* exact rationals (num/den) together with the two special f64 values the  *)
(* code can produce (+inf from n/0, NaN from 0/0 and from 0*inf), so that  *)
(* `f64::max(0.0, v) as u32` is modelled by what it does: NaN and negative *)
(* values give 0, other values are truncated, large values saturate.       *)
(* Rounding error of the f64 operations themselves is not modelled.        *)
(***************************************************************************)
EXTENDS Integers, Sequences, FiniteSets, TLC

(* ----------------------------- bounds ---------------------------------- *)
\* width and height of the image App::new loads
ImgW == 3
ImgH == 3
\* pointer coordinates are 3*k - 1 for k in 0..MaxPos: one negative value,
\* values inside the window and values beyond its far edge
MaxPos == 2
\* the window's width and height are 0 or MaxWin
MaxWin == 3

(* ------------------------- program constants --------------------------- *)
\* the fit margin 0.95 = MarginNum / MarginDen
MarginNum == 19
MarginDen == 20

(* ------------------------------ Option --------------------------------- *)
None == <<>>
Some(v) == <<v>>
IsSome(o) == o # <<>>
Unwrap(o) == o[1]

Min(a, b) == IF a <= b THEN a ELSE b
Max(a, b) == IF a >= b THEN a ELSE b

(* ------------------------------ inputs --------------------------------- *)
PosVals == {3 * k - 1 : k \in 0..MaxPos}
Positions == {<<x, x>> : x \in PosVals} \cup {<<x, x + 3>> : x \in PosVals \ {3 * MaxPos - 1}}
WinVals == {0, MaxWin}
WindowSizes == WinVals \X WinVals
Buttons == {"MouseLeft", "Escape"}
ButtonStates == {"Press", "Release"}
ButtonArgsSet == [button : Buttons, state : ButtonStates]

VARIABLES
    image,           \* App.image: the buffer, by its width and height
    area_selection,  \* App.area_selection: <<Option<pos>, Option<pos>>>
    last_mouse_pos,  \* App.last_mouse_pos: Option<pos>
    should_close,    \* the window's should_close flag
    saved,           \* what save_image was last called with (Option<image>)
    panicked,        \* a failing unwrap was reached
    last,            \* history: the event the loop processed last and the crop it requested
    emitted,         \* history: (anchor, pointer position) of the last consumed release,
                     \* until a press, a cancel or the event after its resolution
    pressed,         \* history: a press was consumed and no release or cancel since
    cancelled,       \* history: a cancel happened and no press was consumed since
    observed         \* history: the pointer position of the latest event carrying one

vars == <<image, area_selection, last_mouse_pos, should_close, saved, panicked,
          last, emitted, pressed, cancelled, observed>>

(* --------------------------- f64 arithmetic ---------------------------- *)
\* an f64 value: a rational num/den (den > 0), +inf or NaN
Finite(n, d) == [kind |-> "finite", num |-> n, den |-> d]
Inf == [kind |-> "inf", num |-> 1, den |-> 1]
NaN == [kind |-> "nan", num |-> 0, den |-> 1]

\* window extent / image extent as f64 (main.rs:72-73): n >= 0, d >= 0
F64Div(n, d) ==
    IF d > 0 THEN Finite(n, d)
    ELSE IF n > 0 THEN Inf ELSE NaN

\* f64::min (main.rs:76): a NaN operand is ignored
F64Min(a, b) ==
    IF a.kind = "nan" THEN b
    ELSE IF b.kind = "nan" THEN a
    ELSE IF a.kind = "inf" THEN b
    ELSE IF b.kind = "inf" THEN a
    ELSE IF a.num * b.den <= b.num * a.den THEN a ELSE b

\* f64::max(0.0, v) (main.rs:122): NaN gives 0.0
F64Max0(v) ==
    IF v.kind = "nan" THEN Finite(0, 1)
    ELSE IF v.kind = "inf" THEN v
    ELSE IF v.num < 0 THEN Finite(0, 1) ELSE v

\* min(cap, v as u32) for a non-negative f64 v and a u32 cap (main.rs:122):
\* the cast truncates, gives 0 for NaN and saturates at u32::MAX, which is
\* at least cap
AsU32Min(cap, v) ==
    IF v.kind = "nan" THEN 0
    ELSE IF v.kind = "inf" THEN cap
    ELSE Min(cap, Max(0, v.num \div v.den))

(* --------------------------- view transform ---------------------------- *)
\* mutant: the fit margin is not applied
ratio_no_margin(window_size, image_width, image_height) ==
    F64Min(F64Div(window_size[1], image_width), F64Div(window_size[2], image_height))

\* ratio = f64::min(ratio_width, ratio_height) * 0.95 (main.rs:71-76);
\* inf * 0.95 = inf, NaN * 0.95 = NaN
ratio(window_size, image_width, image_height) ==
    LET m == F64Min(F64Div(window_size[1], image_width),
                    F64Div(window_size[2], image_height))
    IN  IF m.kind = "finite"
        THEN Finite(m.num * MarginNum, m.den * MarginDen)
        ELSE m

\* trans = id.trans(x, y).scale(ratio, ratio).trans(-(image_width / 2), -(image_height / 2))
\* (main.rs:67, 78-84).  x = window width / 2 is kept doubled (x2 = 2 * x);
\* image_width / 2 is the u32 division.
trans(window_size, image_width, image_height) ==
    [ratio |-> ratio(window_size, image_width, image_height),
     x2 |-> window_size[1], y2 |-> window_size[2],
     cx |-> image_width \div 2, cy |-> image_height \div 2]

\* mat2x3_inv(trans) has finite entries exactly when the determinant
\* ratio * ratio is finite and not 0; otherwise every entry is NaN
\* (1/0 = inf, 0 * inf = NaN; an inf or NaN ratio puts NaN into trans itself)
Invertible(t) == t.ratio.kind = "finite" /\ t.ratio.num > 0

\* row_mat2x3_transform_pos2(mat2x3_inv(trans), p) (main.rs:112-113):
\* (p - x) / ratio + image_width / 2, component-wise
inv_transform_pos2(t, p) ==
    IF Invertible(t)
    THEN << Finite((2 * p[1] - t.x2) * t.ratio.den + 2 * t.ratio.num * t.cx,
                   2 * t.ratio.num),
            Finite((2 * p[2] - t.y2) * t.ratio.den + 2 * t.ratio.num * t.cy,
                   2 * t.ratio.num) >>
    ELSE << NaN, NaN >>

\* row_mat2x3_transform_pos2(trans, p): where graphics::image(texture, trans, gl)
\* draws the image-space point p (main.rs:90-93): x + ratio * (p - image_width / 2),
\* component-wise, for a point p of two finite f64 values.  An inf or NaN ratio
\* puts NaN into trans (1 * 0 + 0 * inf), so the result is NaN.
transform_pos2(t, p) ==
    IF t.ratio.kind = "finite"
    THEN << Finite(t.x2 * t.ratio.den * p[1].den
                     + 2 * t.ratio.num * (p[1].num - t.cx * p[1].den),
                   2 * t.ratio.den * p[1].den),
            Finite(t.y2 * t.ratio.den * p[2].den
                     + 2 * t.ratio.num * (p[2].num - t.cy * p[2].den),
                   2 * t.ratio.den * p[2].den) >>
    ELSE << NaN, NaN >>

(* ------------------------ resolving a selection ------------------------ *)
\* mutant: the coordinate is not capped to the image dimension
sanitize_coord_uncapped(c, image_dimension) ==
    LET v == F64Max0(c)
    IN  IF v.kind = "nan" THEN 0
        ELSE IF v.kind = "inf" THEN image_dimension + 1
        ELSE Max(0, v.num \div v.den)

\* min(image_dimension, f64::max(0.0, c) as u32) (main.rs:122-127)
sanitize_coord(c, image_dimension) == AsU32Min(image_dimension, F64Max0(c))

\* the "sanitize" block (main.rs:118-130)
sanitize(p, image_width, image_height) ==
    << sanitize_coord(p[1], image_width), sanitize_coord(p[2], image_height) >>

\* u32::checked_sub
checked_sub(a, b) == IF a >= b THEN Some(a - b) ELSE None

\* mutant: the fallback subtracts in the same order
size_component_same_order(a, b) ==
    IF IsSome(checked_sub(a, b)) THEN checked_sub(a, b) ELSE checked_sub(a, b)

\* a.checked_sub(b).unwrap_or_else(|| b.checked_sub(a).unwrap()) (main.rs:139-142);
\* None stands for the inner unwrap failing
size_component(a, b) ==
    IF IsSome(checked_sub(a, b)) THEN checked_sub(a, b) ELSE checked_sub(b, a)

\* mutant: the first corner is taken as origin
start_of_first(a, b) == a

\* start = (min(a.0, b.0), min(a.1, b.1)) (main.rs:135)
start_of(a, b) == << Min(a[1], b[1]), Min(a[2], b[2]) >>

\* mutant: the height is computed from the x coordinates as well
size_of_square(a, b) == << size_component(a[1], b[1]), size_component(a[1], b[1]) >>

\* size = (|a.0 - b.0|, |b.1 - a.1|) (main.rs:138-143), each an Option
size_of(a, b) == << size_component(a[1], b[1]), size_component(b[2], a[2]) >>

\* (start, size) of the selection (start_pos, end_pos) under window_size, for an
\* image of image_width x image_height (main.rs:110-146)
resolve(start_pos, end_pos, window_size, image_width, image_height) ==
    LET t == trans(window_size, image_width, image_height)
        a == sanitize(inv_transform_pos2(t, start_pos), image_width, image_height)
        b == sanitize(inv_transform_pos2(t, end_pos), image_width, image_height)
    IN  [start |-> start_of(a, b), size |-> size_of(a, b)]

\* mutant: width and height are exchanged
crop_imm_swapped(img, x, y, width, height) ==
    LET cx == Min(x, img.w)
        cy == Min(y, img.h)
    IN  [w |-> Min(height, img.w - cx), h |-> Min(width, img.h - cy)]

\* image::imageops::crop_imm(..).to_image() (main.rs:150-151): crop_dimms caps
\* the rectangle to the image, the new buffer has exactly the capped size.
\* A buffer is identified by its dimensions: a rectangle within the image that
\* has the image's width and height is the whole image.
crop_imm(img, x, y, width, height) ==
    LET cx == Min(x, img.w)
        cy == Min(y, img.h)
    IN  [w |-> Min(width, img.w - cx), h |-> Min(height, img.h - cy)]

\* the rectangle render hands to crop_imm, if it resolves a selection
\* (main.rs:109-148); texture.get_size() is the image's size (main.rs:69, 153)
CropRequest(s, window_size) ==
    IF IsSome(s.area_selection[1]) /\ IsSome(s.area_selection[2])
    THEN Some(resolve(Unwrap(s.area_selection[1]), Unwrap(s.area_selection[2]),
                      window_size, s.image.w, s.image.h))
    ELSE None

\* App::render (main.rs:52-157); drawing changes no state
render(s, window_size) ==
    LET req == CropRequest(s, window_size)
    IN  IF ~IsSome(req) THEN s
        ELSE LET r == Unwrap(req)
             IN  IF ~IsSome(r.size[1]) \/ ~IsSome(r.size[2])
                 THEN [s EXCEPT !.panicked = TRUE]
                 ELSE [s EXCEPT
                         !.image = crop_imm(s.image, r.start[1], r.start[2],
                                            Unwrap(r.size[1]), Unwrap(r.size[2])),
                         !.area_selection = << None, None >>]

(* ------------------------------- input --------------------------------- *)
\* mutant: the press sets the anchor and leaves a second corner in place
input_press_keeps_second(s) ==
    IF IsSome(s.last_mouse_pos)
    THEN [s EXCEPT !.area_selection = << s.last_mouse_pos, s.area_selection[2] >>]
    ELSE s

\* left button pressed (main.rs:166-171)
input_press(s) ==
    IF IsSome(s.last_mouse_pos)
    THEN [s EXCEPT !.area_selection = << s.last_mouse_pos, None >>]
    ELSE s

\* mutant: the release stores the second corner whether or not an anchor is set
input_release_unanchored(s) ==
    IF IsSome(s.last_mouse_pos)
    THEN [s EXCEPT !.area_selection = << s.area_selection[1], s.last_mouse_pos >>]
    ELSE s

\* left button released (main.rs:173-177)
input_release(s) ==
    IF IsSome(s.last_mouse_pos) /\ IsSome(s.area_selection[1])
    THEN [s EXCEPT !.area_selection = << s.area_selection[1], s.last_mouse_pos >>]
    ELSE s

\* mutant: Escape clears the selection and always saves and closes
input_escape_always_exits(s) ==
    [s EXCEPT !.area_selection = << None, None >>,
              !.saved = Some(s.image), !.should_close = TRUE]

\* mutant: Escape drops the second corner only
input_escape_keeps_anchor(s) ==
    IF IsSome(s.area_selection[1])
    THEN [s EXCEPT !.area_selection = << s.area_selection[1], None >>]
    ELSE [s EXCEPT !.saved = Some(s.image), !.should_close = TRUE]

\* Escape released (main.rs:179-191)
input_escape(s) ==
    IF IsSome(s.area_selection[1])
    THEN [s EXCEPT !.area_selection = << None, None >>]
    ELSE [s EXCEPT !.saved = Some(s.image), !.should_close = TRUE]

\* the button part of App::input (main.rs:165-192)
input_button(s, b) ==
    LET s1 == IF b.button = "MouseLeft" /\ b.state = "Press"
              THEN input_press(s) ELSE s
        s2 == IF b.button = "MouseLeft" /\ b.state = "Release"
              THEN input_release(s1) ELSE s1
    IN  IF b.button = "Escape" /\ b.state = "Release"
        THEN input_escape(s2) ELSE s2

\* mutant: a pending second corner follows the pointer
input_mouse_tracks_second(s, mouse) ==
    IF IsSome(mouse)
    THEN [s EXCEPT !.last_mouse_pos = mouse,
                   !.area_selection = IF IsSome(s.area_selection[2])
                                      THEN << s.area_selection[1], mouse >>
                                      ELSE s.area_selection]
    ELSE s

\* mutant: the anchor follows the pointer while no second corner is set
input_mouse_drags_anchor(s, mouse) ==
    IF IsSome(mouse)
    THEN [s EXCEPT !.last_mouse_pos = mouse,
                   !.area_selection = IF IsSome(s.area_selection[1]) /\ ~IsSome(s.area_selection[2])
                                      THEN << mouse, None >>
                                      ELSE s.area_selection]
    ELSE s

\* the pointer part of App::input (main.rs:194-196)
input_mouse(s, mouse) ==
    IF IsSome(mouse) THEN [s EXCEPT !.last_mouse_pos = mouse] ELSE s

\* mutant: the pointer position of the call is stored before the button is handled
input_mouse_first(s, button, mouse) ==
    LET s1 == IF IsSome(mouse) THEN [s EXCEPT !.last_mouse_pos = mouse] ELSE s
    IN  IF IsSome(button) THEN input_button(s1, Unwrap(button)) ELSE s1

\* App::input (main.rs:159-197)
input(s, button, mouse) ==
    input_mouse(IF IsSome(button) THEN input_button(s, Unwrap(button)) ELSE s, mouse)

(* ----------------------------- event loop ------------------------------ *)
\* the program state as one value, for the handlers above
State ==
    [image |-> image, area_selection |-> area_selection,
     last_mouse_pos |-> last_mouse_pos, should_close |-> should_close,
     saved |-> saved, panicked |-> panicked]

\* what one event yields: e.render_args(), e.button_args(), e.mouse_cursor_args()
Event(r, b, m) == [render |-> r, button |-> b, mouse |-> m]

IsButton(e, button, state) ==
    IsSome(e.button) /\ Unwrap(e.button).button = button /\ Unwrap(e.button).state = state

\* App::new (main.rs:33-46) over an ImgW x ImgH image, and a window that is open
Init ==
    /\ image = [w |-> ImgW, h |-> ImgH]
    /\ area_selection = << None, None >>
    /\ last_mouse_pos = None
    /\ should_close = FALSE
    /\ saved = None
    /\ panicked = FALSE
    /\ last = [e |-> Event(None, None, None), rect |-> None]
    /\ emitted = None
    /\ pressed = FALSE
    /\ cancelled = FALSE
    /\ observed = None

\* events.next(&mut window) yields an event (main.rs:310): it yields None once
\* the window should close, and a panic ends the program
Running == ~should_close /\ ~panicked

\* the body of `while let Some(e) = events.next(&mut window)` (main.rs:311-319):
\* render if the event is a render event, then input, then update (a no-op)
Loop(e) ==
    \E s1 \in {IF IsSome(e.render) THEN render(State, Unwrap(e.render)) ELSE State} :
    \E s2 \in {input(s1, e.button, e.mouse)} :
    \E req \in {IF IsSome(e.render) THEN CropRequest(State, Unwrap(e.render)) ELSE None} :
       LET press == IsButton(e, "MouseLeft", "Press") /\ IsSome(s1.last_mouse_pos)
           release == IsButton(e, "MouseLeft", "Release")
           escape == IsButton(e, "Escape", "Release")
           armed == IsSome(s1.area_selection[1])
       IN  /\ image' = s2.image
           /\ area_selection' = s2.area_selection
           /\ last_mouse_pos' = s2.last_mouse_pos
           /\ should_close' = s2.should_close
           /\ saved' = s2.saved
           /\ panicked' = s2.panicked
           /\ last' = [e |-> e, rect |-> req]
           /\ emitted' = IF press \/ (escape /\ armed) THEN None
                         ELSE IF release /\ armed /\ IsSome(s1.last_mouse_pos)
                              THEN Some(<< Unwrap(s1.area_selection[1]),
                                           Unwrap(s1.last_mouse_pos) >>)
                         ELSE IF IsSome(e.render) THEN emitted
                         ELSE IF IsSome(last.rect) THEN None
                         ELSE emitted
           /\ pressed' = IF press THEN TRUE
                         ELSE IF release \/ escape THEN FALSE
                         ELSE pressed
           /\ cancelled' = IF press THEN FALSE
                           ELSE IF escape /\ armed THEN TRUE
                           ELSE cancelled
           /\ observed' = IF IsSome(e.mouse) THEN e.mouse ELSE observed

\* Loop(Render(args)): the window size is whatever the window has at that frame
RenderEvent == \E w \in WindowSizes : Running /\ Loop(Event(Some(w), None, None))

\* Input(Button(args))
ButtonEvent == \E b \in ButtonArgsSet : Running /\ Loop(Event(None, Some(b), None))

\* Input(Move(MouseCursor(pos)))
MouseCursorEvent == \E p \in Positions : Running /\ Loop(Event(None, None, Some(p)))

\* Loop(Update(args)) and every other event: none of the three accessors yields a value
UpdateEvent == Running /\ Loop(Event(None, None, None))

\* piston's Event is an enum: one event is a render, a button, a pointer or another event
Next == RenderEvent \/ ButtonEvent \/ MouseCursorEvent \/ UpdateEvent

Spec == Init /\ [][Next]_vars

\* App::input takes a button and a pointer position in one call (main.rs:159-164):
\* a tick that delivers both; its button is the left mouse button, whose handling
\* reads the pointer position
TickEvent ==
    \E st \in ButtonStates, p \in Positions :
        Running /\ Loop(Event(None, Some([button |-> "MouseLeft", state |-> st]), Some(p)))

NextTick == Next \/ TickEvent

SpecTick == Init /\ [][NextTick]_vars

(* ---------------------- the specification's scenario -------------------- *)
\* Scenario A / B of the specification: an 800x600 image in a 400x300 window,
\* a press at (50,50) and a release at (150,120)
ScenarioImage == [w |-> 800, h |-> 600]
ScenarioWindow == << 400, 300 >>
ScenarioPress == << 50, 50 >>
ScenarioRelease == << 150, 120 >>

\* App::new (main.rs:33-46) over the scenario's image
InitScenario ==
    /\ image = ScenarioImage
    /\ area_selection = << None, None >>
    /\ last_mouse_pos = None
    /\ should_close = FALSE
    /\ saved = None
    /\ panicked = FALSE
    /\ last = [e |-> Event(None, None, None), rect |-> None]
    /\ emitted = None
    /\ pressed = FALSE
    /\ cancelled = FALSE
    /\ observed = None

\* a render event of the scenario's window
ScenarioRenderEvent == Running /\ Loop(Event(Some(ScenarioWindow), None, None))

\* a pointer event at one of the scenario's two positions
ScenarioMouseEvent ==
    \E p \in {ScenarioPress, ScenarioRelease} : Running /\ Loop(Event(None, None, Some(p)))

NextScenario == ScenarioRenderEvent \/ ButtonEvent \/ ScenarioMouseEvent

SpecScenario == InitScenario /\ [][NextScenario]_vars

(* ------------------------------ claims --------------------------------- *)
LeftPress(e) == IsButton(e, "MouseLeft", "Press")
LeftRelease(e) == IsButton(e, "MouseLeft", "Release")
EscapeRelease(e) == IsButton(e, "Escape", "Release")
NoSelection == << None, None >>
Pending == IsSome(area_selection[1]) /\ IsSome(area_selection[2])

\* the rectangle has width 0 or height 0
ZeroArea(r) == r.size[1] = Some(0) \/ r.size[2] = Some(0)

\* origin + size stays within w x h, and both sizes were computed
WithinImage(r, w, h) ==
    /\ IsSome(r.size[1]) /\ IsSome(r.size[2])
    /\ r.start[1] + Unwrap(r.size[1]) <= w
    /\ r.start[2] + Unwrap(r.size[2]) <= h

\* C1: a render that resolves a selection to a rectangle of width 0 or height 0
\* applies no crop: the image buffer and its dimensions are as before the render.
\* Stated for a window of positive width and height (a zero window is C8's case).
C1_ZeroAreaIsNoOp ==
    [][(/\ IsSome(last'.rect)
        /\ ZeroArea(Unwrap(last'.rect))
        /\ Unwrap(last'.e.render)[1] > 0
        /\ Unwrap(last'.e.render)[2] > 0) => image' = image]_vars

\* C2: a left-button press arms the engine at the last observed pointer position,
\* from any drag state, dropping a second corner; with no pointer position
\* observed yet the press changes nothing.
C2_PressArms ==
    [][LeftPress(last'.e) =>
          /\ IsSome(last_mouse_pos) => area_selection' = << last_mouse_pos, None >>
          /\ ~IsSome(last_mouse_pos) => area_selection' = area_selection
          /\ image' = image
          /\ last_mouse_pos' = last_mouse_pos]_vars

\* a press has armed the engine at the pointer position
C2_Witness ==
    /\ LeftPress(last.e)
    /\ IsSome(last_mouse_pos)
    /\ area_selection = << last_mouse_pos, None >>

\* C3: the selection a render resolves is (anchor, pointer position at the
\* consumed release), whatever pointer moves came between release and render.
C3_ResolvesReleaseCorners ==
    [][IsSome(last'.rect) =>
          /\ IsSome(emitted)
          /\ area_selection = << Some(Unwrap(emitted)[1]), Some(Unwrap(emitted)[2]) >>
          /\ Unwrap(last'.rect) = resolve(Unwrap(emitted)[1], Unwrap(emitted)[2],
                                          Unwrap(last'.e.render), image.w, image.h)]_vars

\* a selection was resolved after the pointer had moved away from the release position
C3_Witness ==
    /\ IsSome(last.rect)
    /\ IsSome(emitted)
    /\ IsSome(last_mouse_pos)
    /\ Unwrap(last_mouse_pos) # Unwrap(emitted)[2]

\* C4: a left-button release that no press preceded (initially, after a cancel,
\* after a completed release) changes neither the drag state nor a pending
\* selection nor the image.
C4_UnpairedReleaseIgnored ==
    [][(LeftRelease(last'.e) /\ ~pressed) =>
          (area_selection' = area_selection /\ image' = image)]_vars

\* C5: Escape released while an anchor is set discards the selection and crops
\* nothing; until a press is consumed again no render changes the image and
\* no anchor appears.
C5_CancelDiscards ==
    [][/\ (EscapeRelease(last'.e) /\ IsSome(area_selection[1])) =>
              (area_selection' = NoSelection /\ image' = image /\ ~should_close'
               /\ saved' = saved)
       /\ cancelled =>
              (/\ area_selection = NoSelection
               /\ image' = image
               /\ (area_selection' # NoSelection => LeftPress(last'.e)))]_vars

\* a render came after a cancel and cropped nothing
C5_Witness ==
    /\ cancelled
    /\ IsSome(last.e.render)
    /\ ~IsSome(last.rect)
    /\ area_selection = NoSelection

\* C6: a pointer-move event only updates the last pointer position: anchor,
\* second corner and image stay as they were.
C6_MoveKeepsDragState ==
    [][(IsSome(last'.e.mouse) /\ ~IsSome(last'.e.button) /\ ~IsSome(last'.e.render)) =>
          /\ last_mouse_pos' = last'.e.mouse
          /\ area_selection' = area_selection
          /\ image' = image
          /\ should_close' = should_close /\ saved' = saved]_vars

\* the pointer moved away from the anchor while the engine was armed
C6_Witness ==
    /\ IsSome(last.e.mouse)
    /\ ~IsSome(last.e.button)
    /\ IsSome(area_selection[1])
    /\ ~IsSome(area_selection[2])
    /\ last_mouse_pos # area_selection[1]

\* C7: every rectangle handed to crop_imm has origin + size within the image
\* it is applied to, wherever the two pointer positions were.
C7_RectWithinImage ==
    [][IsSome(last'.rect) => WithinImage(Unwrap(last'.rect), image.w, image.h)]_vars

\* a drag from a negative position to one beyond the window's far edge was
\* resolved to a rectangle of positive area
C7_Witness ==
    /\ IsSome(last.rect)
    /\ IsSome(emitted)
    /\ Unwrap(emitted)[1][1] < 0
    /\ Unwrap(emitted)[2][1] > Unwrap(last.e.render)[1]
    /\ Unwrap(last.e.render)[1] > 0
    /\ ~ZeroArea(Unwrap(last.rect))

\* C8: a render with zero window width or height that finds a pending selection
\* drops it: no crop, image unchanged, engine idle.
C8_ZeroWindowDefers ==
    [][(/\ IsSome(last'.e.render)
        /\ (Unwrap(last'.e.render)[1] = 0 \/ Unwrap(last'.e.render)[2] = 0)
        /\ Pending) =>
          (image' = image /\ area_selection' = NoSelection)]_vars

\* C9: resolving (anchor, second corner) gives the rectangle that resolving
\* (second corner, anchor) gives under the same transform.
C9_ResolveSymmetric ==
    [][IsSome(last'.rect) =>
          Unwrap(last'.rect) = resolve(Unwrap(area_selection[2]), Unwrap(area_selection[1]),
                                       Unwrap(last'.e.render), image.w, image.h)]_vars

\* a drag whose anchor lies right of and below its second corner was resolved
\* to a rectangle of positive area
C9_Witness ==
    /\ IsSome(last.rect)
    /\ IsSome(emitted)
    /\ Unwrap(emitted)[1][1] > Unwrap(emitted)[2][1]
    /\ Unwrap(emitted)[1][2] > Unwrap(emitted)[2][2]
    /\ ~ZeroArea(Unwrap(last.rect))

\* C10: the position captured at a press (as anchor) or at a release (as second
\* corner) is the pointer position of the latest event before the button was
\* consumed; in a tick with a button and a pointer position the button is
\* consumed first.
C10_CapturesLatestObserved ==
    [][/\ LeftPress(last'.e) =>
              IF IsSome(observed)
              THEN area_selection' = << observed, None >>
              ELSE area_selection' = area_selection
       /\ (LeftRelease(last'.e) /\ IsSome(area_selection[1]) /\ IsSome(observed)) =>
              area_selection' = << area_selection[1], observed >>
       /\ last_mouse_pos' = observed']_vars

\* a tick delivered a release and a new pointer position; the second corner is the
\* position observed before the tick
C10_Witness ==
    /\ LeftRelease(last.e)
    /\ IsSome(last.e.mouse)
    /\ IsSome(area_selection[2])
    /\ area_selection[2] # last.e.mouse
    /\ area_selection[2] # area_selection[1]

\* equality and order of finite f64 values
RatEq(a, b) == a.kind = "finite" /\ b.kind = "finite" /\ a.num * b.den = b.num * a.den
RatLeq(a, b) == a.kind = "finite" /\ b.kind = "finite" /\ a.num * b.den <= b.num * a.den

\* the step is a render with a window and an image of positive width and height
RenderOfPositive ==
    /\ IsSome(last'.e.render)
    /\ Unwrap(last'.e.render)[1] > 0 /\ Unwrap(last'.e.render)[2] > 0
    /\ image.w > 0 /\ image.h > 0

\* C11: at every render with positive window and image sizes the view transform
\* maps the image-space centre (image_w / 2, image_h / 2) to the window centre
\* (window_w / 2, window_h / 2), for odd and even image sizes.
C11_CentreMapsToCentre ==
    [][RenderOfPositive =>
          LET w == Unwrap(last'.e.render)
              c == transform_pos2(trans(w, image.w, image.h),
                                  << Finite(image.w, 2), Finite(image.h, 2) >>)
          IN  RatEq(c[1], Finite(w[1], 2)) /\ RatEq(c[2], Finite(w[2], 2))]_vars

\* C17: at every render with positive window and image sizes the four image
\* corners (0,0), (w,0), (0,h), (w,h) are drawn within [0, window_w] x [0, window_h].
C17_ImageFullyVisible ==
    [][RenderOfPositive =>
          LET w == Unwrap(last'.e.render)
              t == trans(w, image.w, image.h)
          IN  \A cx \in {0, image.w}, cy \in {0, image.h} :
                  LET c == transform_pos2(t, << Finite(cx, 1), Finite(cy, 1) >>)
                  IN  /\ RatLeq(Finite(0, 1), c[1]) /\ RatLeq(c[1], Finite(w[1], 1))
                      /\ RatLeq(Finite(0, 1), c[2]) /\ RatLeq(c[2], Finite(w[2], 1))]_vars

\* the step is the render that resolves the scenario's drag
ScenarioResolved ==
    /\ last'.e.render = Some(ScenarioWindow)
    /\ image = ScenarioImage
    /\ area_selection = << Some(ScenarioPress), Some(ScenarioRelease) >>

\* C12 as stated: the scenario's drag resolves to origin (0,0), size (0,67), a
\* rectangle of zero width, and no crop is applied.
C12_ScenarioB_AsStated ==
    [][ScenarioResolved =>
          /\ last'.rect = Some([start |-> << 0, 0 >>, size |-> << Some(0), Some(67) >>])
          /\ image' = image]_vars

\* C12 as amended: the scenario's drag resolves to origin (84,89), size (210,147),
\* and the image is cropped to 210x147.
C12_ScenarioB ==
    [][ScenarioResolved =>
          /\ last'.rect = Some([start |-> << 84, 89 >>, size |-> << Some(210), Some(147) >>])
          /\ image' = [w |-> 210, h |-> 147]]_vars

\* the scenario's drag was resolved against the 800x600 image
C12_Witness ==
    /\ last.e.render = Some(ScenarioWindow)
    /\ emitted = Some(<< ScenarioPress, ScenarioRelease >>)
    /\ last.rect = Some([start |-> << 84, 89 >>, size |-> << Some(210), Some(147) >>])
    /\ image = [w |-> 210, h |-> 147]

\* C13: resolving a pending selection never panics: the size computation of every
\* resolved selection yields both components (no failing unwrap, no underflow),
\* as it does for every pair of coordinates clamped to the image.
C13_ResolveNeverPanics ==
    /\ ~panicked
    /\ IsSome(last.rect) =>
          IsSome(Unwrap(last.rect).size[1]) /\ IsSome(Unwrap(last.rect).size[2])
    /\ \A a, b \in 0..Max(image.w, image.h) :
          /\ IsSome(size_component(a, b))
          /\ Unwrap(size_component(a, b)) >= 0

\* a resolved drag whose anchor lies left of the second corner: the first
\* subtraction fails and the fallback order is used
C13_Witness ==
    /\ IsSome(last.rect)
    /\ IsSome(emitted)
    /\ Unwrap(emitted)[1][1] < Unwrap(emitted)[2][1]
    /\ IsSome(Unwrap(last.rect).size[1])
    /\ Unwrap(Unwrap(last.rect).size[1]) > 0
    /\ ~panicked

\* the laws of clamping the f64 coordinate c to [0, d]
ClampLaws(c, d) ==
    LET v == sanitize_coord(c, d)
    IN  /\ v \in 0..d
        /\ sanitize_coord(Finite(v, 1), d) = v
        /\ (c.kind = "finite" /\ c.num < 0) => v = 0
        /\ (c.kind = "inf" \/ (c.kind = "finite" /\ c.num > d * c.den)) => v = d
        /\ (c.kind = "finite" /\ c.num % c.den = 0 /\ c.num >= 0 /\ c.num <= d * c.den)
              => v = c.num \div c.den

\* C14: clamping a coordinate to [0, image dimension] is idempotent, lands in
\* [0, d], sends a negative coordinate to 0 and one beyond d to d, and returns an
\* integer already in [0, d] unchanged: for the coordinates of every selection a
\* render resolves, and for every integer coordinate around the image.
C14_ClampIdempotent ==
    [][IsSome(last'.rect) =>
          LET t == trans(Unwrap(last'.e.render), image.w, image.h)
              a == inv_transform_pos2(t, Unwrap(area_selection[1]))
              b == inv_transform_pos2(t, Unwrap(area_selection[2]))
          IN  /\ ClampLaws(a[1], image.w) /\ ClampLaws(a[2], image.h)
              /\ ClampLaws(b[1], image.w) /\ ClampLaws(b[2], image.h)
              /\ \A d \in {image.w, image.h} : \A c \in (0 - 2)..(d + 2) :
                    ClampLaws(Finite(c, 1), d)]_vars

\* a drag from a negative window coordinate to a point beyond the image was
\* resolved in a window of positive size: one corner clamped to 0, one to the
\* image's extent
C14_Witness ==
    /\ IsSome(last.rect)
    /\ IsSome(emitted)
    /\ Unwrap(last.e.render)[1] > 0 /\ Unwrap(last.e.render)[2] > 0
    /\ Unwrap(emitted)[1][1] < 0
    /\ Unwrap(last.rect).start[1] = 0
    /\ Unwrap(last.rect).size[1] = Some(ImgW)
    /\ image.w = ImgW

Abs(n) == IF n >= 0 THEN n ELSE 0 - n

\* C15: the rectangle of every resolved selection has, for its clamped corners
\* a and b, origin (min(a.x,b.x), min(a.y,b.y)) and size (|a.x-b.x|, |a.y-b.y|);
\* the corners (200,150) and (400,300) over the 800x600 image give origin
\* (200,150) and size (200,150).
C15_OriginMinSizeAbs ==
    [][IsSome(last'.rect) =>
          LET t == trans(Unwrap(last'.e.render), image.w, image.h)
              a == sanitize(inv_transform_pos2(t, Unwrap(area_selection[1])), image.w, image.h)
              b == sanitize(inv_transform_pos2(t, Unwrap(area_selection[2])), image.w, image.h)
              r == Unwrap(last'.rect)
          IN  /\ r.start = << Min(a[1], b[1]), Min(a[2], b[2]) >>
              /\ r.size = << Some(Abs(a[1] - b[1])), Some(Abs(a[2] - b[2])) >>
              /\ start_of(<< 200, 150 >>, << 400, 300 >>) = << 200, 150 >>
              /\ size_of(<< 200, 150 >>, << 400, 300 >>) = << Some(200), Some(150) >>
              /\ crop_imm(ScenarioImage, 200, 150, 200, 150) = [w |-> 200, h |-> 150]]_vars

\* a drag towards the upper left (the anchor is the far corner) was resolved to
\* a rectangle of positive width and a different positive height
C15_Witness ==
    /\ IsSome(last.rect)
    /\ IsSome(emitted)
    /\ Unwrap(emitted)[1][1] > Unwrap(emitted)[2][1]
    /\ Unwrap(emitted)[1][2] > Unwrap(emitted)[2][2]
    /\ IsSome(Unwrap(last.rect).size[1]) /\ IsSome(Unwrap(last.rect).size[2])
    /\ Unwrap(Unwrap(last.rect).size[1]) > 0
    /\ Unwrap(Unwrap(last.rect).size[2]) > Unwrap(Unwrap(last.rect).size[1])

\* C16: each completed drag (a release consumed after a press, with a known
\* pointer position) is resolved exactly once, at the next render: the release
\* leaves the drag pending, every press, release, escape and pointer-move event
\* before that render leaves it pending with the same corners, the render
\* resolves it and leaves no anchor and no second corner, and a render with
\* nothing pending crops nothing.
C16_ResolvedOnceAtNextRender ==
    [][/\ (LeftRelease(last'.e) /\ pressed /\ IsSome(last_mouse_pos)) =>
              (IsSome(area_selection[1])
               /\ area_selection' = << area_selection[1], last_mouse_pos >>)
       /\ (Pending /\ ~IsSome(last'.e.render)) => area_selection' = area_selection
       /\ (Pending /\ IsSome(last'.e.render)) =>
              (IsSome(last'.rect) /\ area_selection' = NoSelection)
       /\ (~Pending /\ IsSome(last'.e.render)) =>
              (~IsSome(last'.rect) /\ image' = image)]_vars

\* C18: an Escape release while an anchor is set clears anchor and second corner
\* and neither saves the image nor asks the window to close; an Escape release
\* while no anchor is set saves the image and asks the window to close, and
\* changes neither the selection nor the image.
C18_EscapeClearsOrExits ==
    [][EscapeRelease(last'.e) =>
          /\ IsSome(area_selection[1]) =>
                /\ area_selection' = NoSelection
                /\ saved' = saved
                /\ should_close' = should_close
                /\ image' = image
          /\ ~IsSome(area_selection[1]) =>
                /\ saved' = Some(image)
                /\ should_close'
                /\ area_selection' = area_selection
                /\ image' = image]_vars

\* Escape was released with no anchor set after a crop: the cropped image is
\* saved and the window is asked to close
C18_Witness ==
    /\ EscapeRelease(last.e)
    /\ should_close
    /\ saved = Some(image)
    /\ image.w < ImgW
    /\ area_selection = NoSelection

\* C19: in every reachable state a second corner is stored only together with
\* an anchor.
C19_SecondCornerNeedsAnchor ==
    IsSome(area_selection[2]) => IsSome(area_selection[1])

\* a release has stored a second corner next to the anchor
C19_Witness ==
    /\ LeftRelease(last.e)
    /\ IsSome(area_selection[2])
    /\ IsSome(area_selection[1])
    /\ ~pressed

\* C20: the image never grows and only a resolving render changes it: every
\* other step leaves it unchanged, and after a render that applies a crop the
\* image's width and height are the crop rectangle's, each at most the previous
\* width and height.
C20_ImageNeverGrows ==
    [][/\ ~IsSome(last'.rect) => image' = image
       /\ IsSome(last'.rect) =>
             /\ Some(image'.w) = Unwrap(last'.rect).size[1]
             /\ Some(image'.h) = Unwrap(last'.rect).size[2]
             /\ image'.w <= image.w
             /\ image'.h <= image.h]_vars

\* a render has cropped the image to a rectangle of positive width and height
\* that is narrower than the loaded image
C20_Witness ==
    /\ IsSome(last.rect)
    /\ Unwrap(last.rect).size = << Some(image.w), Some(image.h) >>
    /\ image.w > 0 /\ image.h > 0
    /\ image.w < ImgW
    /\ image.w # image.h

====
